---- MODULE Spec2Model ----
(***************************************************************************)
(* A model of zathura-analyzer.py: the pipeline run by main()              *)
(*   fetch_and_save_raw_data -> calculate_delta_activity |                 *)
(*   clean_and_save_full_data -> analyze_and_plot                          *)
(* over a small file system and an event source.                           *)
(*                                                                         *)
(* Text is a sequence of one-character strings.  A duration in seconds is  *)
(* a whole number of ticks (TicksPerSecond ticks to the second); a         *)
(* duration in minutes is an exact fraction [num, den].                    *)
(* Columns read back from a CSV file keep the type they were written with, *)
(* except that an empty text cell is read back as missing (NaN).           *)
(***************************************************************************)
EXTENDS Integers, Sequences, FiniteSets, TLC

(***************************************************************************)
(* Bounds of the model.                                                    *)
(***************************************************************************)
\* longest window title enumerated exhaustively for the title parser
MaxLen == 5
\* longest book title enumerated for the join key
MaxBookLen == 3
\* most window events in an enumerated event list
MaxEvents == 2
\* resolution of a duration: ticks per second
TicksPerSecond == 5

(***************************************************************************)
(* Configuration, lines 12-14.                                             *)
(***************************************************************************)
RAW_CSV_FILENAME == "zathura_activity_raw.csv"
CLEANED_CSV_FILENAME == "zathura_activity_cleaned.csv"
\* a path other than the two fixed file names, and a path that does not exist
OTHER_CSV == "snapshot1.csv"
MISSING_CSV == "missing.csv"
Paths == {RAW_CSV_FILENAME, CLEANED_CSV_FILENAME, OTHER_CSV, MISSING_CSV}
\* args.initial_file when --initial-file is not given
NoInitialFile == "None"

ZATHURA == "org.pwmt.zathura"
\* pd.NA in an Int64 column
NA == -1

(***************************************************************************)
(* Text helpers.                                                           *)
(***************************************************************************)
Digits == {"0", "1", "2", "3", "4", "5", "6", "7", "8", "9"}
DigitChar == <<"0", "1", "2", "3", "4", "5", "6", "7", "8", "9">>
IsDigit(c) == c \in Digits
DigitVal(c) == (CHOOSE i \in 1..10 : DigitChar[i] = c) - 1

Min(S) == CHOOSE x \in S : \A y \in S : x <= y
Max(S) == CHOOSE x \in S : \A y \in S : x >= y

RECURSIVE StrToInt(_)
\* pd.to_numeric on a captured digit run
StrToInt(s) ==
    IF s = <<>> THEN 0
    ELSE 10 * StrToInt(SubSeq(s, 1, Len(s) - 1)) + DigitVal(s[Len(s)])

RECURSIVE IntToStr(_)
\* str() of a non-negative integer
IntToStr(n) ==
    IF n < 10 THEN <<DigitChar[n + 1]>>
    ELSE IntToStr(n \div 10) \o <<DigitChar[(n % 10) + 1]>>

\* str.strip(): the text without its leading and trailing whitespace
Strip(s) ==
    LET keep == {i \in 1..Len(s) : s[i] # " "}
    IN  IF keep = {} THEN <<>> ELSE SubSeq(s, Min(keep), Max(keep))

\* str.lower() on the letters of the model
Lower(c) == CASE c = "A" -> "a" [] c = "B" -> "b" [] OTHER -> c
LowerStr(s) == [i \in 1..Len(s) |-> Lower(s[i])]

\* re.search(pattern, s, re.IGNORECASE) for a pattern without metacharacters
ContainsIgnoreCase(s, pat) ==
    \E i \in 0..(Len(s) - Len(pat)) :
        LowerStr(SubSeq(s, i + 1, i + Len(pat))) = LowerStr(pat)

(***************************************************************************)
(* Title parser: lines 136-140 and 213-218.                                *)
(***************************************************************************)
\* the last index of the run of digits that starts at p
DigitRunEnd(s, p) ==
    Max({e \in p..Len(s) : \A k \in p..e : IsDigit(s[k])})

\* (\d+)/(\d+) can match at p
PairAt(s, p) ==
    /\ IsDigit(s[p])
    /\ LET q == DigitRunEnd(s, p) + 1
       IN  /\ q + 1 <= Len(s)
           /\ s[q] = "/"
           /\ IsDigit(s[q + 1])

\* the start positions of N in a match of \[.*?(\d+)/(\d+).*?\]
PageMatchStarts(s) ==
    {p \in 1..Len(s) :
        /\ \E i \in 1..(p - 1) : s[i] = "["
        /\ PairAt(s, p)
        /\ \E j \in 1..Len(s) :
              /\ j > DigitRunEnd(s, DigitRunEnd(s, p) + 2)
              /\ s[j] = "]"}

\* df['title'].str.extract(r'\[.*?(\d+)/(\d+).*?\]') with pd.to_numeric and
\* astype('Int64'): the lazy .*? takes the first start, \d+ the whole run
ExtractPages(s) ==
    IF PageMatchStarts(s) = {} THEN [cur |-> NA, tot |-> NA]
    ELSE LET p == Min(PageMatchStarts(s))
             q == DigitRunEnd(s, p) + 1
         IN  [cur |-> StrToInt(SubSeq(s, p, q - 1)),
              tot |-> StrToInt(SubSeq(s, q + 1, DigitRunEnd(s, q + 1)))]

\* str.replace(r'\s*\[.*', '', regex=True): the text before the first "["
\* and the whitespace in front of it
RemovePagePart(s) ==
    LET br == {i \in 1..Len(s) : s[i] = "["}
    IN  IF br = {} THEN s
        ELSE LET fb == Min(br)
                 k  == Min({j \in 1..fb : \A m \in j..(fb - 1) : s[m] = " "})
             IN  SubSeq(s, 1, k - 1)

\* df['title'].str.replace(...).str.strip()
BookTitle(s) == Strip(RemovePagePart(s))

(***************************************************************************)
(* Durations.  Seconds are whole ticks; minutes are fractions [num, den].  *)
(***************************************************************************)
Frac(n, d) == [num |-> n, den |-> d]

\* df['duration'] / 60
SecondsToMinutes(ticks) == Frac(ticks, TicksPerSecond * 60)

\* a - b
FracSub(a, b) ==
    IF a.den = b.den THEN Frac(a.num - b.num, a.den)
    ELSE Frac(a.num * b.den - b.num * a.den, a.den * b.den)

\* a + b
FracAdd(a, b) ==
    IF a.den = b.den THEN Frac(a.num + b.num, a.den)
    ELSE Frac(a.num * b.den + b.num * a.den, a.den * b.den)

\* a > 0
FracPositive(a) == a.num > 0

\* Series.round(2) of a non-negative value: to the nearest hundredth, a tie
\* to the even one
Round2(a) ==
    LET n == a.num * 100
        q == n \div a.den
        r == n % a.den
    IN  Frac(IF 2 * r < a.den THEN q
             ELSE IF 2 * r > a.den THEN q + 1
             ELSE IF q % 2 = 0 THEN q ELSE q + 1, 100)

(***************************************************************************)
(* Ordering of text, for sort_values on Book_Title.                        *)
(***************************************************************************)
\* the characters of the model in code point order
CharOrder == <<" ", "-", "/", "0", "1", "2", "3", "4", "5", "6", "7", "8",
               "9", "<", ">", "A", "B", "N", "[", "]", "a", "b", "p", "x",
               "z">>
CharCode(c) == CHOOSE i \in 1..Len(CharOrder) : CharOrder[i] = c

RECURSIVE StrLess(_, _)
\* a < b for Python strings
StrLess(a, b) ==
    IF b = <<>> THEN FALSE
    ELSE IF a = <<>> THEN TRUE
    ELSE IF a[1] # b[1] THEN CharCode(a[1]) < CharCode(b[1])
    ELSE StrLess(Tail(a), Tail(b))

(***************************************************************************)
(* Files.                                                                  *)
(***************************************************************************)
NoFile == [exists |-> FALSE, kind |-> "none", rows |-> <<>>]
RawFile(rows) == [exists |-> TRUE, kind |-> "raw", rows |-> rows]
CleanedFile(rows) == [exists |-> TRUE, kind |-> "cleaned", rows |-> rows]

VARIABLES
    pc,         \* where main() is: "fetch", "step2", "analyze", "exited"
    exitCode,   \* the exit status of the process, -1 while it runs
    args,       \* book_title, page_range, initial_file
    env,        \* the event source and the disk as this run finds them
    files,      \* path -> content
    files0,     \* the files when the run started
    stages,     \* the pipeline functions entered so far
    df_start,   \* calculate_delta_activity: the initial table as prepared
    df_end,     \* calculate_delta_activity: the newest table as prepared
    agg,        \* analyze_and_plot: df_agg with its statistics
    plots       \* the plot files saved

vars == <<pc, exitCode, args, env, files, files0, stages, df_start,
          df_end, agg, plots>>

NoAgg == [done |-> FALSE, title |-> <<>>, pages |-> <<>>,
          total |-> Frac(0, 1), avg |-> Frac(0, 1)]

(***************************************************************************)
(* fetch_and_save_raw_data, lines 30-113.                                  *)
(***************************************************************************)
\* lines 58-63: the (start, end) pairs of the not-afk events
NonAfkIntervals(afk_events) ==
    LET notAfk == SelectSeq(afk_events, LAMBDA e : e.status = "not-afk")
    IN  [i \in 1..Len(notAfk) |->
            <<notAfk[i].timestamp, notAfk[i].timestamp + notAfk[i].duration>>]

\* start <= t < end
InIntervalHalfOpen(t, iv) == iv[1] <= t /\ t < iv[2]

\* line 71: start <= event_time <= end
InInterval(t, iv) == iv[1] <= t /\ t <= iv[2]

\* lines 69-74: not is_afk
NotAfk(t, intervals) ==
    \E i \in 1..Len(intervals) : InInterval(t, intervals[i])

\* line 68: event['duration'] > 0
DurationPositive(e) == e.duration > 0

\* lines 65-75
ZathuraEvents(window_events, intervals) ==
    SelectSeq(window_events,
              LAMBDA e : /\ e.app = ZATHURA
                         /\ DurationPositive(e)
                         /\ NotAfk(e.timestamp, intervals))

RECURSIVE GroupActivity(_, _)
\* lines 79-88: the dict grouped_activity in insertion order
GroupActivity(events, grouped) ==
    IF events = <<>> THEN grouped
    ELSE LET e == Head(events)
             at == {i \in 1..Len(grouped) : grouped[i].title = e.title}
         IN  IF e.title = <<>> THEN GroupActivity(Tail(events), grouped)
             ELSE IF at = {}
             THEN GroupActivity(Tail(events),
                      Append(grouped, [title |-> e.title,
                                       duration |-> e.duration,
                                       timestamp |-> e.timestamp]))
             ELSE LET i == CHOOSE j \in at : TRUE
                  IN  GroupActivity(Tail(events),
                          [grouped EXCEPT ![i].duration = @ + e.duration])

RECURSIVE InsertByDurationDesc(_, _)
InsertByDurationDesc(row, sorted) ==
    IF sorted = <<>> THEN <<row>>
    ELSE IF Head(sorted).duration >= row.duration
         THEN <<Head(sorted)>> \o InsertByDurationDesc(row, Tail(sorted))
         ELSE <<row>> \o sorted

RECURSIVE SortByDurationDesc(_)
\* line 98: sorted(data_list, key=duration, reverse=True), which is stable
SortByDurationDesc(rows) ==
    IF rows = <<>> THEN <<>>
    ELSE InsertByDurationDesc(rows[Len(rows)],
                              SortByDurationDesc(SubSeq(rows, 1, Len(rows) - 1)))

\* lines 56-98: sorted_data
SortedData(afk_events, window_events) ==
    SortByDurationDesc(
        GroupActivity(ZathuraEvents(window_events,
                                    NonAfkIntervals(afk_events)), <<>>))

\* only the AFK list is looked at
FetchUnavailableAfkOnly(e) ==
    \/ ~e.reachable
    \/ ~e.afk_bucket \/ ~e.window_bucket
    \/ ~e.afk_ok \/ e.afk_events = <<>>

\* lines 34-54: the conditions under which nothing is fetched
FetchUnavailable(e) ==
    \/ ~e.reachable                          \* lines 38-40
    \/ ~e.afk_bucket \/ ~e.window_bucket     \* lines 45-47
    \/ ~e.afk_ok \/ e.afk_events = <<>>      \* line 52, None or []
    \/ ~e.window_ok \/ e.window_events = <<>>

(***************************************************************************)
(* _clean_and_prepare_file, lines 117-149.                                 *)
(***************************************************************************)
\* Int64.astype(str): pd.NA becomes the text <NA>
PageStr(page) == IF page = NA THEN <<"<", "N", "A", ">">> ELSE IntToStr(page)

\* the key without a separator
JoinKeyNoSeparator(book, page) == book \o PageStr(page)

\* line 143: df['Book_Title'] + "-" + df['Current_Page'].astype(str)
JoinKey(book, page) == book \o <<"-">> \o PageStr(page)

\* lines 133-146, one row of df_cleaned
PrepareRow(row) ==
    LET book  == BookTitle(row.title)
        pages == ExtractPages(row.title)
    IN  [key          |-> JoinKey(book, pages.cur),
         Book_Title   |-> book,
         Current_Page |-> pages.cur,
         Total_Pages  |-> pages.tot,
         Duration_min |-> SecondsToMinutes(row.duration)]

\* lines 133-149: df_cleaned of a raw snapshot that was read
CleanAndPrepare(raw_rows) ==
    [i \in 1..Len(raw_rows) |-> PrepareRow(raw_rows[i])]

\* lines 121-133: the file is there and has the columns of a raw snapshot
\* (FileNotFoundError ends the run; a table without 'duration' is a KeyError)
Readable(file) == file.exists /\ file.kind = "raw"

(***************************************************************************)
(* calculate_delta_activity, lines 152-189.                                *)
(***************************************************************************)
\* lines 161-169: the rows of the left join for one row of df_end, the
\* missing Duration_min_Start filled with 0
MergeRow(e, start) ==
    LET m == SelectSeq(start, LAMBDA r : r.key = e.key)
    IN  IF m = <<>>
        THEN <<[end |-> e, Duration_min_Start |-> Frac(0, 1)]>>
        ELSE [i \in 1..Len(m) |->
                 [end |-> e, Duration_min_Start |-> m[i].Duration_min]]

RECURSIVE MergeLeft(_, _)
\* lines 161-169: pd.merge(df_end, df_start, on='key', how='left')
MergeLeft(end, start) ==
    IF end = <<>> THEN <<>>
    ELSE MergeRow(Head(end), start) \o MergeLeft(Tail(end), start)

\* sort_values(by=['Book_Title', 'Current_Page']): a before b; NA is last
RowBefore(a, b) ==
    \/ StrLess(a.Book_Title, b.Book_Title)
    \/ /\ a.Book_Title = b.Book_Title
       /\ a.Current_Page # NA
       /\ b.Current_Page = NA \/ a.Current_Page < b.Current_Page

RECURSIVE InsertByTitlePage(_, _)
InsertByTitlePage(row, sorted) ==
    IF sorted = <<>> THEN <<row>>
    ELSE IF RowBefore(row, Head(sorted))
         THEN <<row>> \o sorted
         ELSE <<Head(sorted)>> \o InsertByTitlePage(row, Tail(sorted))

RECURSIVE SortByTitlePage(_)
\* line 181
SortByTitlePage(rows) ==
    IF rows = <<>> THEN <<>>
    ELSE InsertByTitlePage(rows[Len(rows)],
                           SortByTitlePage(SubSeq(rows, 1, Len(rows) - 1)))

\* lines 172-181: df_session_activity
SessionActivity(merged) ==
    LET delta(m) == FracSub(m.end.Duration_min, m.Duration_min_Start)
        kept == SelectSeq(merged, LAMBDA m : FracPositive(delta(m)))
    IN  SortByTitlePage(
            [i \in 1..Len(kept) |->
                [Book_Title   |-> kept[i].end.Book_Title,
                 Current_Page |-> kept[i].end.Current_Page,
                 Total_Pages  |-> kept[i].end.Total_Pages,
                 Duration_min |-> Round2(delta(kept[i]))]])

\* lines 157-181
DeltaTable(start_rows, end_rows) ==
    SessionActivity(MergeLeft(CleanAndPrepare(end_rows),
                              CleanAndPrepare(start_rows)))

(***************************************************************************)
(* clean_and_save_full_data, lines 193-226.                                *)
(***************************************************************************)
\* lines 210-221
FullTable(raw_rows) ==
    [i \in 1..Len(raw_rows) |->
        [Book_Title   |-> BookTitle(raw_rows[i].title),
         Current_Page |-> ExtractPages(raw_rows[i].title).cur,
         Total_Pages  |-> ExtractPages(raw_rows[i].title).tot,
         Duration_min |-> SecondsToMinutes(raw_rows[i].duration)]]

(***************************************************************************)
(* analyze_and_plot, lines 230-328.                                        *)
(***************************************************************************)
\* lines 242-248: page_range.split('-') gives exactly two texts that int()
\* accepts, with 1 <= START <= END
RangeParts(s) ==
    LET dash == {i \in 1..Len(s) : s[i] = "-"}
        d    == Min(dash)
    IN  IF Cardinality(dash) # 1 THEN <<>>
        ELSE IF d = 1 \/ d = Len(s) THEN <<>>
        ELSE IF \E i \in 1..Len(s) : i # d /\ ~IsDigit(s[i]) THEN <<>>
        ELSE <<StrToInt(SubSeq(s, 1, d - 1)),
               StrToInt(SubSeq(s, d + 1, Len(s)))>>

ValidRange(s) ==
    /\ RangeParts(s) # <<>>
    /\ ~(RangeParts(s)[1] > RangeParts(s)[2] \/ RangeParts(s)[1] < 1)

\* lines 251-253: a missing (NaN) title never matches, na=False
MatchingRows(rows, pattern) ==
    SelectSeq(rows, LAMBDA r : /\ r.Book_Title # <<>>
                               /\ ContainsIgnoreCase(r.Book_Title, pattern))

\* line 255
UniqueMatches(rows, pattern) ==
    {MatchingRows(rows, pattern)[i].Book_Title :
        i \in 1..Len(MatchingRows(rows, pattern))}

\* lines 271-274
FilterPages(rows, start_page, end_page) ==
    SelectSeq(rows, LAMBDA r : /\ r.Current_Page # NA
                               /\ r.Current_Page >= start_page
                               /\ r.Current_Page <= end_page)

RECURSIVE SumDurations(_)
SumDurations(rows) ==
    IF rows = <<>> THEN Frac(0, 1)
    ELSE IF Len(rows) = 1 THEN rows[1].Duration_min
    ELSE FracAdd(rows[1].Duration_min, SumDurations(Tail(rows)))

RECURSIVE GroupByPage(_, _)
\* line 282: groupby('Current_Page')['Duration_min'].sum(), pages ascending
GroupByPage(rows, pages) ==
    IF pages = {} THEN <<>>
    ELSE LET p == Min(pages)
         IN  <<[Current_Page |-> p,
                Duration_min |->
                    SumDurations(SelectSeq(rows,
                                 LAMBDA r : r.Current_Page = p))]>>
             \o GroupByPage(rows, pages \ {p})

\* more than two titles are too many
TooManyMatchesLax(n) == n > 2

\* line 261
TooManyMatches(n) == n > 1

\* lines 241-279: how analyze_and_plot ends
Outcome(rows, pattern, page_range) ==
    IF ~ValidRange(page_range) THEN "bad_range"
    ELSE IF Cardinality(UniqueMatches(rows, pattern)) = 0 THEN "not_found"
    ELSE IF TooManyMatches(Cardinality(UniqueMatches(rows, pattern)))
         THEN "ambiguous"
    ELSE IF FilterPages(MatchingRows(rows, pattern),
                        RangeParts(page_range)[1],
                        RangeParts(page_range)[2]) = <<>> THEN "no_records"
    ELSE "plot"

\* lines 282-285: df_agg, total_duration, avg_duration
Aggregate(rows, pattern, page_range) ==
    LET matching == MatchingRows(rows, pattern)
        filtered == FilterPages(matching, RangeParts(page_range)[1],
                                RangeParts(page_range)[2])
        df_agg   == GroupByPage(filtered,
                        {filtered[i].Current_Page : i \in 1..Len(filtered)})
        total    == SumDurations(df_agg)
    IN  [done  |-> TRUE,
         title |-> matching[1].Book_Title,
         pages |-> df_agg,
         total |-> total,
         avg   |-> Frac(total.num, total.den * Len(df_agg))]

(***************************************************************************)
(* main, lines 331-376, one action for each way a step can end.            *)
(***************************************************************************)
Exit(code) == pc' = "exited" /\ exitCode' = code

\* lines 357-359 with lines 34-54 and 111-113: fetch returns False
FetchFails ==
    /\ pc = "fetch"
    /\ FetchUnavailable(env) \/ ~env.raw_writable
    /\ Exit(1)
    /\ stages' = stages \cup {"fetch"}
    /\ UNCHANGED <<args, env, files, files0, df_start, df_end, agg, plots>>

\* line 357 with lines 56-110: the newest snapshot is written
FetchSucceeds ==
    /\ pc = "fetch"
    /\ ~FetchUnavailable(env) /\ env.raw_writable
    /\ files' = [files EXCEPT ![RAW_CSV_FILENAME] =
                    RawFile(SortedData(env.afk_events, env.window_events))]
    /\ pc' = "step2"
    /\ stages' = stages \cup {"fetch"}
    /\ UNCHANGED <<exitCode, args, env, files0, df_start, df_end, agg, plots>>

\* lines 362-364 with 119-133: the initial file is missing (sys.exit(1)) or
\* is no raw snapshot (an uncaught KeyError)
DeltaCannotRead ==
    /\ pc = "step2"
    /\ args.initial_file # NoInitialFile
    /\ ~Readable(files[args.initial_file])
    /\ Exit(1)
    /\ stages' = stages \cup {"delta"}
    /\ UNCHANGED <<args, env, files, files0, df_start, df_end, agg, plots>>

\* lines 362-364 with 152-189
CalculateDeltaActivity ==
    /\ pc = "step2"
    /\ args.initial_file # NoInitialFile
    /\ Readable(files[args.initial_file])
    /\ df_start' = CleanAndPrepare(files[args.initial_file].rows)
    /\ df_end' = CleanAndPrepare(files[RAW_CSV_FILENAME].rows)
    /\ files' = [files EXCEPT ![CLEANED_CSV_FILENAME] =
                    CleanedFile(DeltaTable(files[args.initial_file].rows,
                                           files[RAW_CSV_FILENAME].rows))]
    /\ pc' = "analyze"
    /\ stages' = stages \cup {"delta"}
    /\ UNCHANGED <<exitCode, args, env, files0, agg, plots>>

\* lines 367-369 with 193-226
CleanAndSaveFullData ==
    /\ pc = "step2"
    /\ args.initial_file = NoInitialFile
    /\ files' = [files EXCEPT ![CLEANED_CSV_FILENAME] =
                    CleanedFile(FullTable(files[RAW_CSV_FILENAME].rows))]
    /\ pc' = "analyze"
    /\ stages' = stages \cup {"clean"}
    /\ UNCHANGED <<exitCode, args, env, files0, df_start, df_end, agg, plots>>

\* line 374 with 241-279: analyze_and_plot ends in sys.exit
AnalyzeExits ==
    /\ pc = "analyze"
    /\ LET how == Outcome(files[CLEANED_CSV_FILENAME].rows, args.book_title,
                          args.page_range)
       IN  /\ how # "plot"
           /\ Exit(IF how \in {"bad_range", "ambiguous"} THEN 1 ELSE 0)
    /\ stages' = stages \cup {"analyze"}
    /\ UNCHANGED <<args, env, files, files0, df_start, df_end, agg, plots>>

\* lines 374-376 with 281-328: the plot is saved and main returns
AnalyzeAndPlot ==
    /\ pc = "analyze"
    /\ Outcome(files[CLEANED_CSV_FILENAME].rows, args.book_title,
               args.page_range) = "plot"
    /\ agg' = Aggregate(files[CLEANED_CSV_FILENAME].rows, args.book_title,
                        args.page_range)
    /\ plots' = plots \cup
                  {[title |-> agg'.title,
                    start_page |-> RangeParts(args.page_range)[1],
                    end_page |-> RangeParts(args.page_range)[2]]}
    /\ Exit(0)
    /\ stages' = stages \cup {"analyze"}
    /\ UNCHANGED <<args, env, files, files0, df_start, df_end>>

Next ==
    \/ FetchFails
    \/ FetchSucceeds
    \/ DeltaCannotRead
    \/ CalculateDeltaActivity
    \/ CleanAndSaveFullData
    \/ AnalyzeExits
    \/ AnalyzeAndPlot

(***************************************************************************)
(* Inputs of a run.                                                        *)
(***************************************************************************)
\* all texts over alphabet of length at most n
Strings(alphabet, n) == UNION {[1..k -> alphabet] : k \in 0..n}

\* a window title as zathura writes it: "book [cur/tot]"
Title(book, cur, tot) ==
    book \o <<" ", "[">> \o IntToStr(cur) \o <<"/">> \o IntToStr(tot) \o <<"]">>

AfkEvent(t, d, status) == [timestamp |-> t, duration |-> d, status |-> status]
WindowEvent(t, d, app, title) ==
    [timestamp |-> t, duration |-> d, app |-> app, title |-> title]

\* the event source answers with these two lists and the disk can be written
Env(afk_events, window_events) ==
    [reachable |-> TRUE, afk_bucket |-> TRUE, window_bucket |-> TRUE,
     afk_ok |-> TRUE, window_ok |-> TRUE,
     afk_events |-> afk_events, window_events |-> window_events,
     raw_writable |-> TRUE]

Args(pattern, page_range, initial_file) ==
    [book_title |-> pattern, page_range |-> page_range,
     initial_file |-> initial_file]

Files(raw, cleaned, other) ==
    [p \in Paths |->
        CASE p = RAW_CSV_FILENAME -> raw
          [] p = CLEANED_CSV_FILENAME -> cleaned
          [] p = OTHER_CSV -> other
          [] OTHER -> NoFile]

\* the user is present from 0 to 10
Present == <<AfkEvent(0, 10, "not-afk")>>

\* the state main() starts in
Start(a, e, f) ==
    /\ pc = "fetch"
    /\ exitCode = -1
    /\ args = a
    /\ env = e
    /\ files = f
    /\ files0 = f
    /\ stages = {}
    /\ df_start = <<>>
    /\ df_end = <<>>
    /\ agg = NoAgg
    /\ plots = {}

BookA == <<"A", "b">>
BookB == <<"a", "B", " ", "x">>
BookZ == <<"z">>

\* a snapshot written by an earlier run
OldSnapshot ==
    RawFile(<<[title |-> Title(BookA, 1, 9), duration |-> 300, timestamp |-> 1],
              [title |-> Title(BookZ, 3, 9), duration |-> 150, timestamp |-> 2]>>)

OldCleaned ==
    CleanedFile(FullTable(OldSnapshot.rows))

(* Every window title of at most MaxLen characters, cleaned in full mode. *)
ParserAlphabet == {"a", " ", "[", "]", "/", "1"}

InitParser ==
    \E t \in Strings(ParserAlphabet, MaxLen) :
        Start(Args(<<"a">>, <<"1", "-", "2">>, NoInitialFile),
              Env(Present, <<WindowEvent(1, 1, ZATHURA, t)>>),
              Files(NoFile, NoFile, OldSnapshot))

(* Two pages of any two books whose titles are made of a letter, the       *)
(* separator and a digit, reconciled against an earlier snapshot.          *)
KeyAlphabet == {"a", "-", "1"}
KeyPages == {1, 11}

InitKeys ==
    \E b1, b2 \in Strings(KeyAlphabet, MaxBookLen) : \E p1, p2 \in KeyPages :
        /\ <<b1, p1>> # <<b2, p2>>
        /\ Start(Args(<<"a">>, <<"1", "-", "2">>, OTHER_CSV),
                 Env(Present, <<WindowEvent(1, 2, ZATHURA, Title(b1, p1, 20)),
                                WindowEvent(2, 1, ZATHURA, Title(b2, p2, 20))>>),
                 Files(NoFile, NoFile,
                       RawFile(<<[title |-> Title(b1, p1, 20), duration |-> 1,
                                  timestamp |-> 1]>>)))

(* Two snapshots of the same four titles: two that name page 1 of the same *)
(* book, page 2 of it, and the book without a page.  A duration of 0 is a  *)
(* title the snapshot does not have.  301 ticks are one tick more than a   *)
(* minute (300 ticks when TicksPerSecond is 5).                            *)
DeltaTitles ==
    <<Title(<<"B">>, 1, 9),
      <<"B", " ", "[", "p", "1", "/", "9", "]">>,
      Title(<<"B">>, 2, 9),
      <<"B">>>>
DeltaDurations ==
    [DOMAIN DeltaTitles ->  {0, 300}] \cup
    {[i \in DOMAIN DeltaTitles |-> IF i = 1 THEN d ELSE f[i]] :
        d \in {1, 301}, f \in [DOMAIN DeltaTitles -> {0, 300}]}

\* the raw snapshot a run writes when it sees these durations
SnapshotOf(durations) ==
    LET all == [i \in DOMAIN DeltaTitles |->
                   [title |-> DeltaTitles[i], duration |-> durations[i],
                    timestamp |-> i]]
    IN  RawFile(SortByDurationDesc(SelectSeq(all, LAMBDA r : r.duration > 0)))

InitDelta ==
    \E before, now \in DeltaDurations :
        Start(Args(<<"B">>, <<"1", "-", "2">>, OTHER_CSV),
              Env(Present,
                  [i \in DOMAIN DeltaTitles |->
                      WindowEvent(i, now[i], ZATHURA, DeltaTitles[i])]),
              Files(NoFile, NoFile, SnapshotOf(before)))

(* Event lists of at most MaxEvents window events: inside, at the end of   *)
(* and outside a presence interval, with and without a duration, of the    *)
(* reader and of another application, with and without a title.            *)
AfkSamples ==
    {<<AfkEvent(1, 3, "not-afk"), AfkEvent(4, 5, "afk")>>,
     <<AfkEvent(0, 1, "afk"), AfkEvent(1, 1, "not-afk"),
       AfkEvent(4, 0, "not-afk")>>,
     <<AfkEvent(0, 9, "afk")>>,
     <<>>}
WindowSamples ==
    {WindowEvent(2, 3, ZATHURA, Title(BookA, 1, 9)),
     WindowEvent(4, 2, ZATHURA, Title(BookA, 1, 9)),
     WindowEvent(5, 2, ZATHURA, Title(BookA, 1, 9)),
     WindowEvent(2, 0, ZATHURA, Title(BookA, 1, 9)),
     WindowEvent(2, 1, "firefox", Title(BookA, 1, 9)),
     WindowEvent(2, 4, ZATHURA, Title(BookA, 2, 9)),
     WindowEvent(3, 2, ZATHURA, BookZ),
     WindowEvent(4, 1, ZATHURA, <<>>)}

InitFetch ==
    \E afk \in AfkSamples :
    \E n \in 0..MaxEvents : \E win \in [1..n -> WindowSamples] :
        Start(Args(<<"A">>, <<"1", "-", "2">>, NoInitialFile),
              Env(afk, win),
              Files(NoFile, NoFile, OldSnapshot))

(* Whole runs: every way the event source can fail, every kind of          *)
(* --initial-file, patterns that match no, one and two books, and page     *)
(* ranges that are valid, empty of records and malformed.                  *)
Reading ==
    <<WindowEvent(1, 300, ZATHURA, Title(BookA, 1, 9)),
      WindowEvent(2, 150, ZATHURA, Title(BookA, 2, 9)),
      WindowEvent(3, 150, ZATHURA, BookA)>>
ReadingTwoBooks ==
    Reading \o <<WindowEvent(4, 300, ZATHURA, Title(BookB, 1, 9))>>

EnvSamples ==
    LET ok == Env(Present, ReadingTwoBooks)
    IN  {ok,
         Env(Present, Reading),
         [ok EXCEPT !.reachable = FALSE],
         [ok EXCEPT !.afk_bucket = FALSE],
         [ok EXCEPT !.window_bucket = FALSE],
         [ok EXCEPT !.afk_ok = FALSE],
         [ok EXCEPT !.window_ok = FALSE],
         [ok EXCEPT !.afk_events = <<>>],
         [ok EXCEPT !.window_events = <<>>],
         [ok EXCEPT !.raw_writable = FALSE]}

PatternSamples == {<<>>, <<"a", "b">>, <<"x">>, <<"z">>}
RangeSamples ==
    {<<"1", "-", "1">>, <<"1", "-", "2">>, <<"3", "-", "4">>,
     <<"2", "-", "1">>, <<"0", "-", "1">>, <<"1", "2">>,
     <<"1", "-", "2", "-", "3">>, <<"1", "-">>}
InitialFileSamples ==
    {NoInitialFile, RAW_CSV_FILENAME, CLEANED_CSV_FILENAME, OTHER_CSV,
     MISSING_CSV}

InitMain ==
    \E e \in EnvSamples, pattern \in PatternSamples, range \in RangeSamples,
       initial \in InitialFileSamples,
       raw \in {NoFile, OldSnapshot}, cleaned \in {NoFile, OldCleaned} :
        Start(Args(pattern, range, initial), e,
              Files(raw, cleaned, OldSnapshot))

Init == InitParser \/ InitKeys \/ InitDelta \/ InitFetch \/ InitMain

Spec == Init /\ [][Next]_vars

(***************************************************************************)
(* Properties.                                                             *)
(***************************************************************************)
\* fetch_and_save_raw_data has returned True
FetchDone == pc = "step2" \/ stages \cap {"delta", "clean"} # {}

\* calculate_delta_activity has returned; the delta table is on disk
DeltaDone == "delta" \in stages /\ (pc = "analyze" \/ "analyze" \in stages)

\* clean_and_save_full_data has returned
CleanDone == "clean" \in stages

DeltaRows == files[CLEANED_CSV_FILENAME].rows

KeyOf(r) == <<r.Book_Title, r.Current_Page>>

\* C1: every row of the delta table has a Duration_min, as written after
\* rounding, that is strictly positive.
C1_WrittenDeltaPositive ==
    DeltaDone =>
        \A i \in 1..Len(DeltaRows) : DeltaRows[i].Duration_min.num > 0

\* r is d rounded to two decimals: a number of hundredths at most half a
\* hundredth away from d
IsRounded2(r, d) ==
    /\ r.den = 100
    /\ LET diff == 100 * d.num - r.num * d.den
       IN  2 * (IF diff < 0 THEN -diff ELSE diff) <= d.den

\* the minutes the initial snapshot holds for a key: those of its rows with
\* that book title and page, 0 when it has none
InitialMinutes(k) ==
    LET at == {i \in 1..Len(df_start) : KeyOf(df_start[i]) = k}
    IN  IF at = {} THEN {Frac(0, 1)}
        ELSE {df_start[i].Duration_min : i \in at}

\* C2: a (book title, page) row of the final snapshot has a row in the delta
\* table if and only if its minutes less the initial minutes of its key (0
\* without an initial row) are positive; the row it has holds that difference
\* rounded to two decimals; a page only the initial snapshot has never appears.
C2_RowIffPositiveDifference ==
    DeltaDone =>
        /\ \A j \in 1..Len(df_end) :
              df_end[j].Current_Page # NA =>
                  \A before \in InitialMinutes(KeyOf(df_end[j])) :
                      LET d == FracSub(df_end[j].Duration_min, before)
                      IN  d.num > 0 <=>
                              \E i \in 1..Len(DeltaRows) :
                                  /\ KeyOf(DeltaRows[i]) = KeyOf(df_end[j])
                                  /\ IsRounded2(DeltaRows[i].Duration_min, d)
        \* a row of the final snapshot has one row or none
        /\ \A j \in 1..Len(df_end) :
              df_end[j].Current_Page # NA =>
                  Cardinality({i \in 1..Len(DeltaRows) :
                                  KeyOf(DeltaRows[i]) = KeyOf(df_end[j])})
                  <= Cardinality({i \in 1..Len(df_end) :
                                  KeyOf(df_end[i]) = KeyOf(df_end[j])})
        /\ \A i \in 1..Len(DeltaRows) :
              \E j \in 1..Len(df_end) : KeyOf(df_end[j]) = KeyOf(DeltaRows[i])

\* C3: the delta table has no row whose Current_Page is null.
C3_NoNullPageInDelta ==
    DeltaDone =>
        \A i \in 1..Len(DeltaRows) : DeltaRows[i].Current_Page # NA

\* the window event is one fetch_and_save_raw_data counts: of the reader,
\* longer than 0, at a time inside a not-afk interval, its ends included
Survives(e) ==
    /\ e.app = ZATHURA
    /\ e.duration > 0
    /\ \E k \in 1..Len(env.afk_events) :
          LET a == env.afk_events[k]
          IN  /\ a.status = "not-afk"
              /\ a.timestamp <= e.timestamp
              /\ e.timestamp <= a.timestamp + a.duration

RECURSIVE SumAt(_, _)
\* the sum of the durations of the events at the indices in S
SumAt(events, S) ==
    IF S = {} THEN 0
    ELSE LET i == CHOOSE x \in S : TRUE
         IN  events[i].duration + SumAt(events, S \ {i})

SurvivingWith(title) ==
    {i \in 1..Len(env.window_events) :
        /\ env.window_events[i].title = title
        /\ Survives(env.window_events[i])}

\* the duration the raw snapshot records for a title, 0 when it has no row
RecordedFor(title) ==
    LET raw == files[RAW_CSV_FILENAME].rows
    IN  SumAt(raw, {i \in 1..Len(raw) : raw[i].title = title})

\* C4 as stated: for every raw title string an event carries, the empty one
\* too, the duration recorded for it is the sum of the durations of the
\* surviving events that carry it.
C4_EveryTitleAccumulated ==
    FetchDone =>
        \A k \in 1..Len(env.window_events) :
            RecordedFor(env.window_events[k].title) =
                SumAt(env.window_events,
                      SurvivingWith(env.window_events[k].title))

\* C4 (amended): the duration recorded for a raw title is the sum of the
\* durations of the surviving events that carry it; a title without a
\* surviving event is not recorded, a title that is not empty and has one is
\* recorded once, and the empty title is never recorded.
C4_AccumulatedDuration ==
    FetchDone =>
        LET raw == files[RAW_CSV_FILENAME].rows
        IN  /\ \A i \in 1..Len(raw) :
                  /\ SurvivingWith(raw[i].title) # {}
                  /\ raw[i].duration =
                         SumAt(env.window_events, SurvivingWith(raw[i].title))
            /\ \A i, j \in 1..Len(raw) :
                  raw[i].title = raw[j].title => i = j
            /\ \A i \in 1..Len(raw) : raw[i].title # <<>>
            /\ \A k \in 1..Len(env.window_events) :
                  LET e == env.window_events[k]
                  IN  Survives(e) /\ e.title # <<>> =>
                          \E i \in 1..Len(raw) : raw[i].title = e.title

\* two events of one title are summed, one of them at the very end of a
\* presence interval
C4_Witness ==
    /\ FetchDone
    /\ \E i, j \in 1..Len(env.window_events) :
          /\ i # j
          /\ {i, j} \subseteq SurvivingWith(env.window_events[i].title)
          /\ \E k \in 1..Len(env.afk_events) :
                /\ env.afk_events[k].status = "not-afk"
                /\ env.window_events[i].timestamp =
                       env.afk_events[k].timestamp + env.afk_events[k].duration
          /\ \E r \in 1..Len(files[RAW_CSV_FILENAME].rows) :
                files[RAW_CSV_FILENAME].rows[r].duration =
                    env.window_events[i].duration + env.window_events[j].duration

\* the title holds "[", later a pair of numbers N/M, later "]"
HasBracketedPair(s) ==
    \E i, p, q, e, j \in 1..Len(s) :
        /\ i < p /\ p < q /\ q < e /\ e < j
        /\ s[i] = "[" /\ s[q] = "/" /\ s[j] = "]"
        /\ \A k \in p..(q - 1) : IsDigit(s[k])
        /\ \A k \in (q + 1)..e : IsDigit(s[k])

\* C5: for a raw title without a bracketed pair N/M both page fields are null
\* and the book title is the whole title, only trimmed.
C5_NoPairKeepsWholeTitle ==
    CleanDone =>
        LET raw     == files[RAW_CSV_FILENAME].rows
            cleaned == files[CLEANED_CSV_FILENAME].rows
        IN  \A i \in 1..Len(raw) :
                ~HasBracketedPair(raw[i].title) =>
                    /\ cleaned[i].Current_Page = NA
                    /\ cleaned[i].Total_Pages = NA
                    /\ cleaned[i].Book_Title = Strip(raw[i].title)

\* the event source is unreachable, a bucket is missing, or a list of
\* events is unavailable or empty
SourceFails ==
    \/ ~env.reachable
    \/ ~env.afk_bucket
    \/ ~env.window_bucket
    \/ ~env.afk_ok
    \/ ~env.window_ok
    \/ env.afk_events = <<>>
    \/ env.window_events = <<>>

\* C6: when the event source fails the run ends with exit code 1, no file is
\* written and no later stage starts.
C6_SourceFailureAborts ==
    SourceFails =>
        /\ pc \in {"fetch", "exited"}
        /\ pc = "exited" => exitCode = 1
        /\ files = files0
        /\ stages \subseteq {"fetch"}
        /\ ~agg.done
        /\ plots = {}

\* the run has ended on an empty list of window events, with old files on disk
C6_Witness ==
    /\ env.reachable /\ env.afk_bucket /\ env.window_bucket
    /\ env.afk_ok /\ env.window_ok
    /\ env.afk_events # <<>>
    /\ env.window_events = <<>>
    /\ pc = "exited"
    /\ exitCode = 1
    /\ files0[RAW_CSV_FILENAME].exists
    /\ args.initial_file # NoInitialFile

\* the distinct book titles of the cleaned table that match the pattern
MatchedTitles ==
    LET rows == files[CLEANED_CSV_FILENAME].rows
    IN  {rows[i].Book_Title : i \in
            {k \in 1..Len(rows) :
                /\ rows[k].Book_Title # <<>>
                /\ ContainsIgnoreCase(rows[k].Book_Title, args.book_title)}}

\* a row of a matched title has its page in [start, end]
MatchedInRange ==
    LET rows == files[CLEANED_CSV_FILENAME].rows
    IN  \E i \in 1..Len(rows) :
            /\ rows[i].Book_Title \in MatchedTitles
            /\ rows[i].Current_Page # NA
            /\ RangeParts(args.page_range)[1] <= rows[i].Current_Page
            /\ rows[i].Current_Page <= RangeParts(args.page_range)[2]

C8_DeltaUniquelyKeyed ==
    LET initial == files[args.initial_file].rows
        final   == files[RAW_CSV_FILENAME].rows
    IN  /\ DeltaDone
        /\ \A i, j \in 1..Len(initial) :
              initial[i].title = initial[j].title => i = j
        /\ \A i, j \in 1..Len(final) :
              final[i].title = final[j].title => i = j
        => \A i, j \in 1..Len(DeltaRows) :
              KeyOf(DeltaRows[i]) = KeyOf(DeltaRows[j]) => i = j

\* the rows calculate_delta_activity has prepared, page not null
KeyedRows ==
    {df_start[i] : i \in {k \in 1..Len(df_start) :
                             df_start[k].Current_Page # NA}}
    \cup {df_end[i] : i \in {k \in 1..Len(df_end) :
                                df_end[k].Current_Page # NA}}

\* C9: two prepared rows with the same join key have the same book title and
\* the same current page.
C9_JoinKeyInjective ==
    \A r1, r2 \in KeyedRows :
        r1.key = r2.key =>
            r1.Book_Title = r2.Book_Title /\ r1.Current_Page = r2.Current_Page

\* two pages were keyed whose book titles hold the separator and end in a
\* digit, one title a prefix of the other
C9_Witness ==
    /\ DeltaDone
    /\ \E r1, r2 \in KeyedRows :
          /\ r1.Book_Title = <<"a", "-", "1">>
          /\ r2.Book_Title = <<"a">>
          /\ r1.Current_Page = 1
          /\ r2.Current_Page = 11
          /\ r1.key # r2.key

\* C10: in delta mode the fetch stage leaves the file given as --initial-file
\* as it was when the run started, and the reconciler reads that content.
C10_InitialSnapshotUntouched ==
    args.initial_file # NoInitialFile =>
        /\ FetchDone => files[args.initial_file] = files0[args.initial_file]
        /\ DeltaDone =>
              df_start = CleanAndPrepare(files0[args.initial_file].rows)

====
